---------------------------- MODULE Spec2Model ----------------------------
(***************************************************************************)
(* Model of linear-regression-rs (src/lib.rs): the Frame dataset, the loss *)
(* functions squared_error and mean_squared_error, the gradient_descent    *)
(* update and the regression training loop.                                *)
(*                                                                         *)
(* Every number of the program is an f64.  The model computes with IEEE    *)
(* 754 binary64 values: a value is NaN, a signed infinity, or a signed     *)
(* m * 2^e with m an arbitrary-size natural, and every operation returns   *)
(* the exact result rounded to nearest, ties to even, with gradual         *)
(* underflow and overflow to infinity.                                     *)
(***************************************************************************)
EXTENDS Integers, Sequences, FiniteSets, TLC

(***************************************************************************)
(* Naturals of any size: little-endian sequences of limbs in 0..Base-1     *)
(* without leading zero limbs (zero is << >>).  They carry the 53-bit      *)
(* significands of f64 and the exact sums, products and quotients of them. *)
(***************************************************************************)
LimbBits == 15
Base == 2^LimbBits

Max(a, b) == IF a >= b THEN a ELSE b
Min(a, b) == IF a <= b THEN a ELSE b

\* index of the highest nonzero limb among a[1..i], 0 if there is none
RECURSIVE BTop(_, _)
BTop(a, i) == IF i = 0 THEN 0 ELSE IF a[i] # 0 THEN i ELSE BTop(a, i - 1)

BTrim(a) == SubSeq(a, 1, BTop(a, Len(a)))

RECURSIVE BFromNat(_)
BFromNat(n) == IF n = 0 THEN << >> ELSE <<n % Base>> \o BFromNat(n \div Base)

Limb(a, i) == IF i >= 1 /\ i <= Len(a) THEN a[i] ELSE 0

RECURSIVE BAddC(_, _, _, _)
BAddC(a, b, i, c) ==
    IF i > Len(a) /\ i > Len(b)
    THEN (IF c = 0 THEN << >> ELSE <<c>>)
    ELSE LET s == Limb(a, i) + Limb(b, i) + c
         IN  <<s % Base>> \o BAddC(a, b, i + 1, s \div Base)

BAdd(a, b) == BAddC(a, b, 1, 0)

\* a - b for a >= b
RECURSIVE BSubC(_, _, _, _)
BSubC(a, b, i, c) ==
    IF i > Len(a) THEN << >>
    ELSE LET d == Limb(a, i) - Limb(b, i) - c
         IN  IF d < 0 THEN <<d + Base>> \o BSubC(a, b, i + 1, 1)
                      ELSE <<d>> \o BSubC(a, b, i + 1, 0)

BSub(a, b) == BTrim(BSubC(a, b, 1, 0))

\* -1, 0, 1 as a < b, a = b, a > b
RECURSIVE BCmpAt(_, _, _)
BCmpAt(a, b, i) ==
    IF i = 0 THEN 0
    ELSE IF a[i] < b[i] THEN -1
    ELSE IF a[i] > b[i] THEN 1
    ELSE BCmpAt(a, b, i - 1)

BCmp(a, b) ==
    IF Len(a) < Len(b) THEN -1
    ELSE IF Len(a) > Len(b) THEN 1
    ELSE BCmpAt(a, b, Len(a))

\* a * k for a limb-sized k
RECURSIVE BMulSmallC(_, _, _, _)
BMulSmallC(a, k, i, c) ==
    IF i > Len(a)
    THEN (IF c = 0 THEN << >> ELSE <<c>>)
    ELSE LET p == a[i] * k + c
         IN  <<p % Base>> \o BMulSmallC(a, k, i + 1, p \div Base)

BMulSmall(a, k) == IF k = 0 THEN << >> ELSE BMulSmallC(a, k, 1, 0)

RECURSIVE Zeros(_)
Zeros(n) == IF n = 0 THEN << >> ELSE <<0>> \o Zeros(n - 1)

BShlLimbs(a, n) == IF a = << >> THEN a ELSE Zeros(n) \o a

RECURSIVE BMulAt(_, _, _)
BMulAt(a, b, j) ==
    IF j > Len(b) THEN << >>
    ELSE BAdd(BShlLimbs(BMulSmall(a, b[j]), j - 1), BMulAt(a, b, j + 1))

BMul(a, b) == BMulAt(a, b, 1)

\* limbs i.. of a * 2^s, for s < LimbBits
RECURSIVE BShlAt(_, _, _)
BShlAt(a, s, i) ==
    IF i > Len(a) + 1 THEN << >>
    ELSE <<((Limb(a, i) * 2^s) % Base) + (Limb(a, i - 1) \div 2^(LimbBits - s))>>
         \o BShlAt(a, s, i + 1)

\* a * 2^n
BShl(a, n) == BShlLimbs(BTrim(BShlAt(a, n % LimbBits, 1)), n \div LimbBits)

\* limbs i.. of floor(a / 2^s), for s < LimbBits
RECURSIVE BShrAt(_, _, _)
BShrAt(a, s, i) ==
    IF i > Len(a) THEN << >>
    ELSE <<(Limb(a, i) \div 2^s) + ((Limb(a, i + 1) % 2^s) * 2^(LimbBits - s))>>
         \o BShrAt(a, s, i + 1)

\* floor(a / 2^n)
BShr(a, n) ==
    LET w == n \div LimbBits
    IN  IF w >= Len(a) THEN << >>
        ELSE BTrim(BShrAt(SubSeq(a, w + 1, Len(a)), n % LimbBits, 1))

\* bit i of a (bit 0 is the lowest)
BBit(a, i) == (Limb(a, (i \div LimbBits) + 1) \div 2^(i % LimbBits)) % 2

\* some bit among the n lowest bits of a is set
BLowNonzero(a, n) ==
    \/ \E j \in 1..Min(n \div LimbBits, Len(a)) : a[j] # 0
    \/ Limb(a, (n \div LimbBits) + 1) % 2^(n % LimbBits) # 0

RECURSIVE NatBits(_)
NatBits(n) == IF n = 0 THEN 0 ELSE 1 + NatBits(n \div 2)

\* number of significant bits of a
BBits(a) == IF a = << >> THEN 0 ELSE LimbBits * (Len(a) - 1) + NatBits(a[Len(a)])

\* number of trailing zero bits of a # 0
RECURSIVE BTz(_, _)
BTz(a, i) == IF BBit(a, i) = 1 THEN i ELSE BTz(a, i + 1)

\* Long division of n by d # 0, one bit at a time from the highest bit of n.
\* BDivBits takes bits i down to lo with the remainder r so far and returns
\* <<those quotient bits as a limb, the remainder>>; BDivLimbs takes limbs j
\* down to 1 and returns <<quotient limbs, remainder>>.
RECURSIVE BDivBits(_, _, _, _, _)
RECURSIVE BDivStep(_, _, _, _, _)

BDivPut(bit, rest) == <<bit + rest[1], rest[2]>>

\* r2 is the remainder with the next bit of n brought down
BDivStep(n, d, i, lo, r2) ==
    IF BCmp(r2, d) >= 0
    THEN BDivPut(2^(i - lo), BDivBits(n, d, i - 1, lo, BSub(r2, d)))
    ELSE BDivBits(n, d, i - 1, lo, r2)

BDivBits(n, d, i, lo, r) ==
    IF i < lo THEN <<0, r>>
    ELSE BDivStep(n, d, i, lo, BAdd(BMulSmall(r, 2), BFromNat(BBit(n, i))))

RECURSIVE BDivLimbs(_, _, _, _)
RECURSIVE BDivNext(_, _, _, _)

BDivJoin(q, rest) == <<rest[1] \o <<q>>, rest[2]>>

\* qr is limb j of the quotient and the remainder under it; the test always
\* holds and makes qr evaluated before the limbs below it
BDivNext(n, d, j, qr) ==
    IF qr[1] < Base THEN BDivJoin(qr[1], BDivLimbs(n, d, j - 1, qr[2]))
    ELSE << << >>, << >> >>

BDivLimbs(n, d, j, r) ==
    IF j = 0 THEN << << >>, r >>
    ELSE BDivNext(n, d, j,
                  BDivBits(n, d, LimbBits * j - 1, LimbBits * (j - 1), r))

BDivTrim(qr) == <<BTrim(qr[1]), qr[2]>>

\* <<floor(n / d), n mod d>>
BDivMod(n, d) == BDivTrim(BDivLimbs(n, d, Len(n), << >>))

(***************************************************************************)
(* f64: IEEE 754 binary64.  A finite value is (-1)^s * m * 2^e, kept with  *)
(* m odd (or m = 0, e = 0) so that equal values are equal records.         *)
(***************************************************************************)
Precision == 53
MinExp == -1074
MaxExp == 1023

NaN == [k |-> "nan", s |-> 0, m |-> << >>, e |-> 0]
Inf(s) == [k |-> "inf", s |-> s, m |-> << >>, e |-> 0]
Zero(s) == [k |-> "fin", s |-> s, m |-> << >>, e |-> 0]
Pow2(e) == [k |-> "fin", s |-> 0, m |-> <<1>>, e |-> e]

IsNaN(a) == a.k = "nan"
IsInf(a) == a.k = "inf"
IsFinite(a) == a.k = "fin"
IsZero(a) == a.k = "fin" /\ a.m = << >>

\* m # 0 has tz trailing zero bits
FinishOdd(s, m, e, tz) == [k |-> "fin", s |-> s, m |-> BShr(m, tz), e |-> e + tz]

\* the value (-1)^s * m * 2^e, which needs no rounding, as a record:
\* infinite from 2^(MaxExp + 1) on
Finish(s, m, e) ==
    IF m = << >> THEN Zero(s)
    ELSE IF BBits(m) + e > MaxExp + 1 THEN Inf(s)
    ELSE FinishOdd(s, m, e, BTz(m, 0))

\* q = floor(m / 2^r), up by one if the r bits dropped (and what is under
\* them, sticky) are over a half, or are a half and q is odd
RoundedQ(m, r, sticky, q) ==
    IF /\ BBit(m, r - 1) = 1
       /\ (BLowNonzero(m, r - 1) \/ sticky \/ BBit(q, 0) = 1)
    THEN BAdd(q, <<1>>)
    ELSE q

\* t is the exponent of the last place of the result: Precision bits under
\* the highest bit of m, and never below MinExp (gradual underflow)
RoundAt(m, e, sticky, t) ==
    IF t <= e THEN <<m, e>>
    ELSE <<RoundedQ(m, t - e, sticky, BShr(m, t - e)), t>>

FinishPair(s, me) == Finish(s, me[1], me[2])

\* (-1)^s * (m + d) * 2^e rounded to nearest, ties to even, where 0 <= d < 1
\* and d > 0 iff sticky
RoundF(s, m, e, sticky) ==
    FinishPair(s, IF m = << >> THEN <<m, e>>
                  ELSE RoundAt(m, e, sticky,
                               Max(e + BBits(m) - Precision, MinExp)))

Xor(s1, s2) == IF s1 = s2 THEN 0 ELSE 1

\* an integer of the program text or a usize cast `as f64` (exact below 2^53)
FromInt(n) == Finish(IF n < 0 THEN 1 ELSE 0, BFromNat(IF n < 0 THEN -n ELSE n), 0)

FNeg(a) == IF IsNaN(a) THEN NaN ELSE [a EXCEPT !.s = 1 - a.s]

FAbs(a) == IF IsNaN(a) THEN NaN ELSE [a EXCEPT !.s = 0]

FMul(a, b) ==
    IF IsNaN(a) \/ IsNaN(b) THEN NaN
    ELSE IF IsInf(a) \/ IsInf(b)
         THEN (IF IsZero(a) \/ IsZero(b) THEN NaN ELSE Inf(Xor(a.s, b.s)))
    ELSE RoundF(Xor(a.s, b.s), BMul(a.m, b.m), a.e + b.e, FALSE)

\* The exact sum of two nonzero finite values with a.e >= b.e, as <<sign,
\* natural, exponent, sticky>>.  When b lies wholly below the guard bits
\* under a's last bit (b < 2^(a.e - Guard)) it can only decide the rounding
\* direction, so it enters as a sticky bit.
Guard == Precision + 2

Diff(sa, sb, x, y, e, c) ==
    IF c = 0 THEN <<0, << >>, e, FALSE>>
    ELSE IF c > 0 THEN <<sa, BSub(x, y), e, FALSE>>
    ELSE <<sb, BSub(y, x), e, FALSE>>

\* x is a.m shifted to the exponent of the sum
SumOf(a, b, far, x) ==
    IF far
    THEN <<a.s, IF a.s = b.s THEN x ELSE BSub(x, <<1>>), a.e - Guard, TRUE>>
    ELSE IF a.s = b.s THEN <<a.s, BAdd(x, b.m), b.e, FALSE>>
    ELSE Diff(a.s, b.s, x, b.m, b.e, BCmp(x, b.m))

AlignedSum(a, b) ==
    SumOf(a, b, a.e - b.e >= Precision + Guard,
          BShl(a.m, IF a.e - b.e >= Precision + Guard THEN Guard ELSE a.e - b.e))

Round4(q) == RoundF(q[1], q[2], q[3], q[4])

FAdd(a, b) ==
    IF IsNaN(a) \/ IsNaN(b) THEN NaN
    ELSE IF IsInf(a) THEN (IF IsInf(b) /\ a.s # b.s THEN NaN ELSE a)
    ELSE IF IsInf(b) THEN b
    ELSE IF IsZero(a) /\ IsZero(b) THEN Zero(IF a.s = b.s THEN a.s ELSE 0)
    ELSE IF IsZero(a) THEN b
    ELSE IF IsZero(b) THEN a
    ELSE Round4(AlignedSum(IF a.e >= b.e THEN a ELSE b,
                           IF a.e >= b.e THEN b ELSE a))

FSub(a, b) == FAdd(a, FNeg(b))

QuotientOf(s, e, qr) == RoundF(s, qr[1], e, qr[2] # << >>)

\* a.m is shifted by sh so that the quotient has Precision + 2 bits or more
Quotient(a, b, sh) ==
    QuotientOf(Xor(a.s, b.s), a.e - b.e - sh, BDivMod(BShl(a.m, sh), b.m))

FDiv(a, b) ==
    IF IsNaN(a) \/ IsNaN(b) THEN NaN
    ELSE IF IsInf(a) THEN (IF IsInf(b) THEN NaN ELSE Inf(Xor(a.s, b.s)))
    ELSE IF IsInf(b) THEN Zero(Xor(a.s, b.s))
    ELSE IF IsZero(b) THEN (IF IsZero(a) THEN NaN ELSE Inf(Xor(a.s, b.s)))
    ELSE IF IsZero(a) THEN Zero(Xor(a.s, b.s))
    ELSE Quotient(a, b, Max(0, Precision + 2 + BBits(b.m) - BBits(a.m)))

\* a == b as the `==` of f64: false when either is NaN, -0.0 == 0.0
FEq(a, b) ==
    /\ ~IsNaN(a)
    /\ ~IsNaN(b)
    /\ (a = b \/ (IsZero(a) /\ IsZero(b)))

\* |a| < |b| for finite nonzero a and b: by the place of the highest bit,
\* then by the significands brought to one exponent
MagLt(a, b) ==
    IF BBits(a.m) + a.e # BBits(b.m) + b.e
    THEN BBits(a.m) + a.e < BBits(b.m) + b.e
    ELSE BCmp(BShl(a.m, a.e - Min(a.e, b.e)), BShl(b.m, b.e - Min(a.e, b.e))) < 0

\* a < b as the `<` of f64: false when either is NaN or when a == b
FLt(a, b) ==
    /\ ~IsNaN(a)
    /\ ~IsNaN(b)
    /\ ~FEq(a, b)
    /\ IF IsInf(a) THEN a.s = 1
       ELSE IF IsInf(b) THEN b.s = 0
       ELSE IF IsZero(a) THEN b.s = 0
       ELSE IF IsZero(b) THEN a.s = 1
       ELSE IF a.s # b.s THEN a.s = 1
       ELSE IF a.s = 0 THEN MagLt(a, b)
       ELSE MagLt(b, a)

FGe(a, b) == FEq(a, b) \/ FLt(b, a)

\* a decimal literal n/d of the program text (d a power of ten): the f64
\* nearest to it
Dec(n, d) == FDiv(FromInt(n), FromInt(d))

(***************************************************************************)
(* The program.  A Frame is [x, y, verbose].  Every method takes           *)
(* `&mut self`, so a method is modelled by the pair it produces: the frame *)
(* it leaves behind (self) and the value it returns (ret).                 *)
(***************************************************************************)

\* The caller's closures `f: &dyn Fn(f64) -> f64`: |x| x of the tests, a
\* constant and the line 3x + 4 of the regression test.
Predictors == {"identity", "zero", "line"}

Apply(f, v) ==
    CASE f = "identity" -> v
      [] f = "zero" -> Zero(0)
      [] f = "line" -> FAdd(FMul(FromInt(3), v), FromInt(4))

\* zip(&self.x, &self.y) yields the pairs up to the shorter of the two
ZipLen(self) == Min(Len(self.x), Len(self.y))

\* a faulty variant: the square forgotten: error += delta
AddDelta(error, delta) == FAdd(error, delta)

\* error += delta * delta
AddSquare(error, delta) == FAdd(error, FMul(delta, delta))

\* a faulty variant: the pairs taken out of step: x[i] against y from the far end
SquaredErrorBodyMisaligned(self, f, i, error) ==
    AddSquare(error, FSub(self.y[ZipLen(self) - i + 1], Apply(f, self.x[i])))

\* the body of squared_error's loop for the pair i: delta = y - f(*x)
SquaredErrorBody(self, f, i, error) ==
    AddSquare(error, FSub(self.y[i], Apply(f, self.x[i])))

RECURSIVE SquaredErrorLoop(_, _, _, _)
SquaredErrorLoop(self, f, i, error) ==
    IF i > ZipLen(self) THEN error
    ELSE SquaredErrorLoop(self, f, i + 1, SquaredErrorBody(self, f, i, error))

\* a faulty variant: the loop draining self.x as it goes, which `&mut self` permits
squared_error_draining(self, f) ==
    [self |-> [self EXCEPT !.x = << >>],
     ret |-> SquaredErrorLoop(self, f, 1, Zero(0))]

squared_error(self, f) ==
    [self |-> self, ret |-> SquaredErrorLoop(self, f, 1, Zero(0))]

\* a faulty variant: the sample mean: division by len - 1
DivideByLenLessOne(se) ==
    [self |-> se.self, ret |-> FDiv(se.ret, FromInt(Len(se.self.x) - 1))]

\* se is what self.squared_error(f) left and returned
DivideByLen(se) ==
    [self |-> se.self, ret |-> FDiv(se.ret, FromInt(Len(se.self.x)))]

mean_squared_error(self, f) == DivideByLen(squared_error(self, f))

\* g = <<slope_gradient, b_gradient>> after `+= c * x * r` and `+= c * r`,
\* for c = -(2.0 / length) and r = y - (slope * x + b); in Rust c * x * r is
\* (c * x) * r, and the unary minus applies to the quotient
AddGradient(g, c, x, r) ==
    <<FAdd(g[1], FMul(FMul(c, x), r)), FAdd(g[2], FMul(c, r))>>

\* the body of gradient_descent's loop for the pair i
GradientBody(self, slope, b, length, i, g) ==
    AddGradient(g, FNeg(FDiv(FromInt(2), length)), self.x[i],
                FSub(self.y[i], FAdd(FMul(slope, self.x[i]), b)))

RECURSIVE GradientLoop(_, _, _, _, _, _)
GradientLoop(self, slope, b, length, i, g) ==
    IF i > ZipLen(self) THEN g
    ELSE GradientLoop(self, slope, b, length, i + 1,
                      GradientBody(self, slope, b, length, i, g))

\* the tuple gradient_descent returns, g the two gradients after the loop
Descend(slope, b, learning_rate, g) ==
    <<FSub(slope, FMul(g[1], learning_rate)), FSub(b, FMul(g[2], learning_rate))>>

\* a faulty variant: the intercept's gradient taken at the slope already updated
gradient_descent_sequential(self, slope, b, learning_rate) ==
    LET g == GradientLoop(self, slope, b, FromInt(Len(self.x)), 1,
                          <<Zero(0), Zero(0)>>)
        s2 == FSub(slope, FMul(g[1], learning_rate))
        g2 == GradientLoop(self, s2, b, FromInt(Len(self.x)), 1,
                           <<Zero(0), Zero(0)>>)
    IN  [self |-> self, ret |-> <<s2, FSub(b, FMul(g2[2], learning_rate))>>]

gradient_descent(self, slope, b, learning_rate) ==
    [self |-> self,
     ret |-> Descend(slope, b, learning_rate,
                     GradientLoop(self, slope, b, FromInt(Len(self.x)), 1,
                                  <<Zero(0), Zero(0)>>))]

\* println!("Epoch: {}", x) and println!("y = {}x + {}", slope, b): a line
\* is its format string and its arguments ({} prints an i32 in decimal and
\* an f64 as the shortest decimal that reads back as the same value)
EpochLine(x) == [fmt |-> "Epoch: {}", args |-> <<x>>]
EquationLine(slope, b) == [fmt |-> "y = {}x + {}", args |-> <<slope, b>>]

(***************************************************************************)
(* Bounds of the model and the inputs drawn within them.                   *)
(***************************************************************************)
MaxLen == 2
MaxEpoch == 2

RECURSIVE SeqsUpTo(_, _)
SeqsUpTo(S, n) ==
    IF n = 0 THEN {<< >>}
    ELSE LET T == SeqsUpTo(S, n - 1)
         IN  T \cup {Append(t, v) : t \in {u \in T : Len(u) = n - 1}, v \in S}

Ints(s) == [i \in DOMAIN s |-> FromInt(s[i])]

Tiny == Pow2(-600)
Huge == Pow2(600)

\* the datasets of the tests (lines 79-80, and with lines 86-87 applied)
Fixtures ==
    { [x |-> Ints(<<1, 2, 3, 4, 5>>), y |-> Ints(<<1, 2, 4, 4, 5>>)],
      [x |-> Ints(<<8, 2, 2, 4, 5>>), y |-> Ints(<<1, 2, 4, 4, 5>>)] }

\* datasets whose values leave the comfortable range of f64: a difference
\* whose square underflows, the two sides of that threshold, NaN, infinities,
\* and products that overflow
Extremes ==
    { [x |-> <<Zero(0)>>, y |-> <<Tiny>>],
      [x |-> <<Zero(0), Zero(0)>>, y |-> <<Pow2(-538), Pow2(-537)>>],
      [x |-> <<FromInt(1)>>, y |-> <<NaN>>],
      [x |-> <<Inf(0)>>, y |-> <<Inf(0)>>],
      [x |-> <<Huge, FromInt(1)>>, y |-> <<FromInt(1), Huge>>] }

XValues == {FromInt(1), FromInt(2)}
YValues == {FromInt(0), FromInt(1)}

\* every pair of sequences up to MaxLen, of equal length or not, empty or not
Generated ==
    {[x |-> xs, y |-> ys] : xs \in SeqsUpTo(XValues, MaxLen),
                            ys \in SeqsUpTo(YValues, MaxLen)}

\* the datasets the loss functions and gradient_descent are applied to
Datasets == Generated \cup Fixtures \cup Extremes

\* the datasets regression is run on: the tests', the extreme ones, an empty
\* one, two of unequal lengths and two small ones
TrainingSets ==
    Fixtures \cup Extremes \cup
    { [x |-> << >>, y |-> << >>],
      [x |-> Ints(<<1, 2>>), y |-> Ints(<<1>>)],
      [x |-> Ints(<<1>>), y |-> Ints(<<0, 1>>)],
      [x |-> Ints(<<1>>), y |-> Ints(<<1>>)],
      [x |-> Ints(<<1, 2>>), y |-> Ints(<<0, 1>>)] }

\* regression's arguments: epoch is an i32, learning_rate the 0.0001 of the
\* tests or 0.5
Epochs == -1..MaxEpoch
Rates == {Dec(1, 10000), Dec(5, 10)}

\* the (slope, b) a caller hands to gradient_descent directly
Params == {<<FromInt(0), FromInt(0)>>, <<FromInt(1), FromInt(-1)>>}

None == [op |-> "none", self |-> FALSE, f |-> "", args |-> << >>, val |-> << >>]

VARIABLES
    frames,          \* the caller's two Frames over the same x and y,
                     \* frames[v] built with verbose = v
    epoch,           \* the arguments the caller trains with
    learning_rate,
    pc,              \* "caller", or "regression" while a call of it runs
    self,            \* the frame (its index) the running regression is on
    slope, b,        \* regression's locals
    epoch_x,         \* regression's loop variable (x, or _ when quiet)
    stdout,          \* the lines printed so far
    result,          \* per frame, what its regression returned, if it did
    applied,         \* per frame, the gradient_descent applications of its
                     \* regression, in order: [slope, b, ret]
    ret              \* the last direct call of a loss function or of
                     \* gradient_descent and what it returned

vars == <<frames, epoch, learning_rate, pc, self, slope, b, epoch_x, stdout,
          result, applied, ret>>

NoResult == [done |-> FALSE, val |-> << >>]

\* the caller has built its frames (a struct literal: nothing is validated)
\* and chosen its arguments; nothing has been called yet
Start(datasets, epochs) ==
    /\ \E d \in datasets :
          frames = [v \in BOOLEAN |-> [x |-> d.x, y |-> d.y, verbose |-> v]]
    /\ epoch \in epochs
    /\ learning_rate \in Rates
    /\ pc = "caller"
    /\ self = FALSE
    /\ slope = Zero(0)
    /\ b = Zero(0)
    /\ epoch_x = 0
    /\ stdout = << >>
    /\ result = [v \in BOOLEAN |-> NoResult]
    /\ applied = [v \in BOOLEAN |-> << >>]
    /\ ret = None

Init == Start(TrainingSets, Epochs)

regression_vars == <<pc, self, slope, b, epoch_x, stdout, result, applied>>

\* a direct call on frames[v] comes back: r is the frame the method left and
\* the value it returned
Return(v, op, f, args, r) ==
    /\ frames' = [frames EXCEPT ![v] = r.self]
    /\ ret' = [op |-> op, self |-> v, f |-> f, args |-> args, val |-> r.ret]
    /\ UNCHANGED <<epoch, learning_rate, regression_vars>>

\* frame.squared_error(&f)
SquaredError(v, f) ==
    /\ pc = "caller"
    /\ Return(v, "squared_error", f, << >>, squared_error(frames[v], f))

\* frame.mean_squared_error(&f)
MeanSquaredError(v, f) ==
    /\ pc = "caller"
    /\ Return(v, "mean_squared_error", f, << >>,
              mean_squared_error(frames[v], f))

\* frame.gradient_descent(slope, b, learning_rate)
GradientDescent(v, p) ==
    /\ pc = "caller"
    /\ Return(v, "gradient_descent", "", <<p[1], p[2], learning_rate>>,
              gradient_descent(frames[v], p[1], p[2], learning_rate))

\* frame.regression(epoch, learning_rate) is entered: lines 52-53.  The
\* program is single-threaded, so a call runs alone, to its return.
RegressionCall(v) ==
    /\ pc = "caller"
    /\ ~result[v].done
    /\ pc' = "regression"
    /\ self' = v
    /\ slope' = Zero(0)
    /\ b' = Zero(0)
    /\ epoch_x' = 0
    /\ applied' = [applied EXCEPT ![v] = << >>]
    /\ UNCHANGED <<frames, epoch, learning_rate, stdout, result, ret>>

\* a faulty variant: the inclusive range 0..=epoch
InRangeInclusive(x, e) == x <= e

\* `for x in 0..epoch` yields x while x < epoch
InRange(x, e) == x < e

\* what an iteration leaves, g being what gradient_descent left and returned
\* and out the output after it
Assigned(g, out) ==
    [self |-> g.self, slope |-> g.ret[1], b |-> g.ret[2], stdout |-> out]

\* lines 59-60: the two lines printed after the assignment of line 57
Printed(g, x, out) ==
    Assigned(g, out \o <<EpochLine(x), EquationLine(g.ret[1], g.ret[2])>>)

\* a faulty variant: the verbose branch keeping only the slope: (slope, _) = ...
VerboseBodySlopeOnly(fr, s, i, lr, x, out) ==
    [Printed(gradient_descent(fr, s, i, lr), x, out) EXCEPT !.b = i]

\* a faulty variant: the verbose branch printing before it updates
VerboseBodyPrintFirst(fr, s, i, lr, x, out) ==
    Assigned(gradient_descent(fr, s, i, lr),
             out \o <<EpochLine(x), EquationLine(s, i)>>)

\* one iteration of the loop of the verbose branch, lines 57-60, as the
\* frame, the locals and the output it leaves
VerboseBody(fr, s, i, lr, x, out) ==
    Printed(gradient_descent(fr, s, i, lr), x, out)

\* one iteration of the loop of the other branch, line 64
QuietBody(fr, s, i, lr, x, out) ==
    Assigned(gradient_descent(fr, s, i, lr), out)

Iterate(body) ==
    /\ frames' = [frames EXCEPT ![self] = body.self]
    /\ slope' = body.slope
    /\ b' = body.b
    /\ stdout' = body.stdout
    /\ epoch_x' = epoch_x + 1
    /\ applied' = [applied EXCEPT ![self] =
                      Append(@, [slope |-> slope, b |-> b,
                                 ret |-> <<body.slope, body.b>>])]
    /\ UNCHANGED <<epoch, learning_rate, pc, self, result, ret>>

VerboseEpoch ==
    /\ pc = "regression"
    /\ frames[self].verbose
    /\ InRange(epoch_x, epoch)
    /\ Iterate(VerboseBody(frames[self], slope, b, learning_rate, epoch_x, stdout))

QuietEpoch ==
    /\ pc = "regression"
    /\ ~frames[self].verbose
    /\ InRange(epoch_x, epoch)
    /\ Iterate(QuietBody(frames[self], slope, b, learning_rate, epoch_x, stdout))

\* the loop is over: line 68 returns (slope, b)
RegressionReturn ==
    /\ pc = "regression"
    /\ ~InRange(epoch_x, epoch)
    /\ result' = [result EXCEPT ![self] = [done |-> TRUE, val |-> <<slope, b>>]]
    /\ pc' = "caller"
    /\ UNCHANGED <<frames, epoch, learning_rate, self, slope, b, epoch_x,
                   stdout, applied, ret>>

\* The program: a caller that trains each frame once and calls the loss
\* functions and gradient_descent in between, in any order, any number of
\* times.
Next ==
    \/ \E v \in BOOLEAN : SquaredError(v, "identity")
    \/ \E v \in BOOLEAN : MeanSquaredError(v, "identity")
    \/ \E v \in BOOLEAN : GradientDescent(v, <<FromInt(1), FromInt(-1)>>)
    \/ \E v \in BOOLEAN : RegressionCall(v)
    \/ VerboseEpoch
    \/ QuietEpoch
    \/ RegressionReturn

Spec == Init /\ [][Next]_vars

\* What VerboseEpoch, QuietEpoch and RegressionReturn do to the position of
\* the call: the range yields its next index, line 56 or 63, or it is
\* exhausted and line 68 returns.  While pc = "regression" these three are
\* the only steps of Next, and their guards leave no state without one.
Advance ==
    /\ pc = "regression"
    /\ \/ epoch_x' = epoch_x + 1 /\ pc' = pc
       \/ pc' = "caller" /\ epoch_x' = epoch_x

\* A call of regression runs on: the program is single-threaded and
\* synchronous, nothing suspends the loop between two of its steps.
FairSpec == Spec /\ WF_<<pc, epoch_x>>(Advance)

\* The loss functions and gradient_descent as pure functions: the inputs are
\* drawn, one call is made.
InitLoss == Start(Datasets, {0})

NextLoss ==
    /\ ret = None
    /\ \/ \E v \in BOOLEAN, f \in Predictors : SquaredError(v, f)
       \/ \E v \in BOOLEAN, f \in Predictors : MeanSquaredError(v, f)
       \/ \E v \in BOOLEAN, p \in Params : GradientDescent(v, p)

LossSpec == InitLoss /\ [][NextLoss]_vars
(***************************************************************************)
(* The properties.  What the specification says a function computes is     *)
(* written here from its formula, by index, apart from the loops above.    *)
(***************************************************************************)
Zero2 == <<Zero(0), Zero(0)>>

TheFrame == frames[ret.self]

EqualLengths(fr) == Len(fr.x) = Len(fr.y)

IsFixture(fr, xs, ys) == fr.x = Ints(xs) /\ fr.y = Ints(ys)

\* delta_i = y_i - f(x_i)
Delta(fr, f, i) == FSub(fr.y[i], Apply(f, fr.x[i]))

\* sum for i = 1..n of (y_i - f(x_i))^2, added in the order of the indices
RECURSIVE SumOfSquares(_, _, _)
SumOfSquares(fr, f, n) ==
    IF n = 0 THEN Zero(0)
    ELSE FAdd(SumOfSquares(fr, f, n - 1),
              FMul(Delta(fr, f, n), Delta(fr, f, n)))

\* y_i - (slope * x_i + intercept)
Residual(fr, p, i) == FSub(fr.y[i], FAdd(FMul(p[1], fr.x[i]), p[2]))

MinusTwoOver(n) == FNeg(FDiv(FromInt(2), FromInt(n)))

\* Gs: sum for i = 1..k of -(2/n) * x_i * (y_i - (slope * x_i + intercept))
RECURSIVE SlopeGradient(_, _, _, _)
SlopeGradient(fr, p, n, k) ==
    IF k = 0 THEN Zero(0)
    ELSE FAdd(SlopeGradient(fr, p, n, k - 1),
              FMul(FMul(MinusTwoOver(n), fr.x[k]), Residual(fr, p, k)))

\* Gb: sum for i = 1..k of -(2/n) * (y_i - (slope * x_i + intercept))
RECURSIVE InterceptGradient(_, _, _, _)
InterceptGradient(fr, p, n, k) ==
    IF k = 0 THEN Zero(0)
    ELSE FAdd(InterceptGradient(fr, p, n, k - 1),
              FMul(MinusTwoOver(n), Residual(fr, p, k)))

\* C3: on a dataset of equal lengths squared_error(f) returns the sum over the
\* index-aligned pairs of (y[i] - f(x[i]))^2; on x = [1,2,3,4,5],
\* y = [1,2,4,4,5] with the identity that is 1, and with x[0] = 8, x[2] = 2
\* it is 53.
C3_SquaredErrorIsSumOfSquares ==
    ret.op = "squared_error" =>
      /\ EqualLengths(TheFrame) =>
            ret.val = SumOfSquares(TheFrame, ret.f, Len(TheFrame.x))
      /\ (ret.f = "identity"
            /\ IsFixture(TheFrame, <<1, 2, 3, 4, 5>>, <<1, 2, 4, 4, 5>>))
         => ret.val = FromInt(1)
      /\ (ret.f = "identity"
            /\ IsFixture(TheFrame, <<8, 2, 2, 4, 5>>, <<1, 2, 4, 4, 5>>))
         => ret.val = FromInt(53)

C3_Witness ==
    /\ ret.op = "squared_error"
    /\ ret.f = "identity"
    /\ IsFixture(TheFrame, <<8, 2, 2, 4, 5>>, <<1, 2, 4, 4, 5>>)
    /\ ret.val = FromInt(53)

\* C4: mean_squared_error(f) is squared_error(f) divided by the number n of
\* observations; on the fixtures of C3 it is 0.2 and 10.6.
C4_MeanIsSumOverN ==
    ret.op = "mean_squared_error" =>
      /\ EqualLengths(TheFrame) =>
            ret.val = FDiv(SumOfSquares(TheFrame, ret.f, Len(TheFrame.x)),
                           FromInt(Len(TheFrame.x)))
      /\ (ret.f = "identity"
            /\ IsFixture(TheFrame, <<1, 2, 3, 4, 5>>, <<1, 2, 4, 4, 5>>))
         => ret.val = Dec(2, 10)
      /\ (ret.f = "identity"
            /\ IsFixture(TheFrame, <<8, 2, 2, 4, 5>>, <<1, 2, 4, 4, 5>>))
         => ret.val = Dec(106, 10)

C4_Witness ==
    /\ ret.op = "mean_squared_error"
    /\ ret.f = "identity"
    /\ IsFixture(TheFrame, <<8, 2, 2, 4, 5>>, <<1, 2, 4, 4, 5>>)
    /\ ret.val = Dec(106, 10)

\* C2: on a non-empty dataset of n pairs gradient_descent(slope, intercept,
\* learning_rate) returns (slope - learning_rate * Gs, intercept -
\* learning_rate * Gb), both gradients taken at the slope and intercept given.
C2_GradientStepFormula ==
    (ret.op = "gradient_descent" /\ EqualLengths(TheFrame) /\ Len(TheFrame.x) > 0)
    => ret.val =
         <<FSub(ret.args[1],
                FMul(ret.args[3],
                     SlopeGradient(TheFrame, ret.args, Len(TheFrame.x),
                                   Len(TheFrame.x)))),
           FSub(ret.args[2],
                FMul(ret.args[3],
                     InterceptGradient(TheFrame, ret.args, Len(TheFrame.x),
                                       Len(TheFrame.x))))>>

\* a call on two pairs from a nonzero slope that moved both parameters
C2_Witness ==
    /\ ret.op = "gradient_descent"
    /\ EqualLengths(TheFrame)
    /\ Len(TheFrame.x) = 2
    /\ ~IsZero(ret.args[1])
    /\ IsFinite(ret.val[1]) /\ ret.val[1] # ret.args[1]
    /\ IsFinite(ret.val[2]) /\ ret.val[2] # ret.args[2]

\* the pairs squared_error visits
Pairs(fr) == 1..ZipLen(fr)

\* |d| < 2^-537, where the square of d is below half the least positive f64
SquareVanishes(d) ==
    IsFinite(d) /\ (IsZero(d) \/ BBits(d.m) + d.e <= MinExp \div 2)

\* the statement of C5 as written: squared_error(f) >= 0, and it is 0
\* exactly when f(x_i) = y_i for every observation
C5_AsStated ==
    ret.op = "squared_error" =>
      /\ FGe(ret.val, Zero(0))
      /\ FEq(ret.val, Zero(0))
         <=> \A i \in Pairs(TheFrame) :
                FEq(Apply(ret.f, TheFrame.x[i]), TheFrame.y[i])

\* C5: squared_error(f) is never negative: it is NaN exactly when some
\* y_i - f(x_i) is NaN, and otherwise >= 0 (possibly +infinity); when every
\* y_i is finite and f(x_i) = y_i for every observation it is 0; and when it
\* is 0 every |y_i - f(x_i)| is below 2^-537, which need not be zero.
C5_NeverNegativeZeroOnFit ==
    ret.op = "squared_error" =>
      /\ ~FLt(ret.val, Zero(0))
      /\ IsNaN(ret.val)
         <=> \E i \in Pairs(TheFrame) : IsNaN(Delta(TheFrame, ret.f, i))
      /\ ~IsNaN(ret.val) => FGe(ret.val, Zero(0))
      /\ (\A i \in Pairs(TheFrame) :
             /\ IsFinite(TheFrame.y[i])
             /\ FEq(Apply(ret.f, TheFrame.x[i]), TheFrame.y[i]))
         => ret.val = Zero(0)
      /\ FEq(ret.val, Zero(0))
         => \A i \in Pairs(TheFrame) :
               SquareVanishes(Delta(TheFrame, ret.f, i))

\* an error of 0 on a dataset the function does not fit
C5_Witness ==
    /\ ret.op = "squared_error"
    /\ FEq(ret.val, Zero(0))
    /\ \E i \in Pairs(TheFrame) :
          ~FEq(Apply(ret.f, TheFrame.x[i]), TheFrame.y[i])

\* the precondition of the call that has returned does not hold: lengths
\* that differ, or no observation where the length divides
PreconditionViolated ==
    \/ ret.op \in {"squared_error", "mean_squared_error", "gradient_descent"}
          /\ ~EqualLengths(TheFrame)
    \/ ret.op \in {"mean_squared_error", "gradient_descent"}
          /\ Len(TheFrame.x) = 0

\* the statement of C8: no call whose precondition is violated returns a
\* value as if it had been computed
C8_NoSilentResult == ~PreconditionViolated

\* the pair after the applications logged: the last one returned, or the
\* initial (0.0, 0.0)
PairAfter(log) == IF log = << >> THEN Zero2 ELSE log[Len(log)].ret

\* application k of the log was made to the pair the one before it produced
Chained(log) ==
    \A k \in 1..Len(log) :
        <<log[k].slope, log[k].b>> = PairAfter(SubSeq(log, 1, k - 1))

\* the last application logged returned what gradient_descent returns
LastIsGradientDescent(fr, lr, log) ==
    log # << >> =>
        log[Len(log)].ret
            = gradient_descent(fr, log[Len(log)].slope, log[Len(log)].b, lr).ret

EpochCount == Max(epoch, 0)

C1_LoopState ==
    /\ \A v \in BOOLEAN :
          /\ Len(applied[v]) <= EpochCount
          /\ Chained(applied[v])
          /\ result[v].done =>
                /\ Len(applied[v]) = EpochCount
                /\ result[v].val = PairAfter(applied[v])
    /\ pc = "regression" =>
          /\ <<slope, b>> = PairAfter(applied[self])
          /\ epoch_x = Len(applied[self])
          /\ LastIsGradientDescent(frames[self], learning_rate, applied[self])

\* C1: regression(epoch, learning_rate) starts from (0.0, 0.0), applies
\* gradient_descent exactly `epoch` times (none when epoch <= 0), each time to
\* the pair the previous application returned, whatever the values are, and
\* then returns the last pair: a call that has started returns.
C1_ExactlyEpochApplications ==
    /\ []C1_LoopState
    /\ \A v \in BOOLEAN :
          (pc = "regression" /\ self = v) ~> result[v].done

C1_Witness ==
    /\ result[TRUE].done
    /\ epoch >= 2
    /\ Len(applied[TRUE]) = epoch
    /\ result[TRUE].val = applied[TRUE][epoch].ret
    /\ result[TRUE].val # Zero2

\* C6: the frame with verbose = true and the frame with verbose = false over
\* the same x and y, trained with the same epoch and learning_rate, go through
\* the same applications of gradient_descent and return the same pair.
C6_VerboseDoesNotChangeResult ==
    /\ \A k \in 1..Min(Len(applied[TRUE]), Len(applied[FALSE])) :
          applied[TRUE][k] = applied[FALSE][k]
    /\ (result[TRUE].done /\ result[FALSE].done) =>
          /\ result[TRUE].val = result[FALSE].val
          /\ Len(applied[TRUE]) = Len(applied[FALSE])

C6_Witness ==
    /\ result[TRUE].done
    /\ result[FALSE].done
    /\ epoch >= 2
    /\ stdout # << >>
    /\ IsFinite(result[FALSE].val[1])
    /\ result[FALSE].val # Zero2

\* C7: no call of squared_error, mean_squared_error, gradient_descent or
\* regression changes x, y or verbose of a frame, and squared_error called
\* again on the same frame with the same function returns the same value.
C7_DatasetUnchanged ==
    [][/\ frames' = frames
       /\ (ret.op = "squared_error" /\ ret'.op = "squared_error"
             /\ ret'.self = ret.self /\ ret'.f = ret.f)
          => ret'.val = ret.val]_vars

\* every operation has been called on a frame of several observations
C7_Witness ==
    /\ result[TRUE].done
    /\ result[FALSE].done
    /\ epoch >= 1
    /\ ret.op = "squared_error"
    /\ Len(frames[ret.self].x) >= 2
    /\ frames[ret.self].verbose = ret.self

\* the records a verbose run prints for the first k applications of the log
RECURSIVE Records(_, _)
Records(log, k) ==
    IF k = 0 THEN << >>
    ELSE Records(log, k - 1)
            \o <<EpochLine(k - 1), EquationLine(log[k].ret[1], log[k].ret[2])>>

\* C10: at every moment the output is one record per application of
\* gradient_descent made by the verbose frame, in order, the record of index
\* k carrying the pair after k+1 applications: `epoch` records when the
\* verbose call returns, and none from the frame that is not verbose.
C10_OneRecordPerEpoch ==
    /\ stdout = Records(applied[TRUE], Len(applied[TRUE]))
    /\ result[TRUE].done => Len(stdout) = 2 * EpochCount

C10_Witness ==
    /\ result[TRUE].done
    /\ result[FALSE].done
    /\ epoch >= 2
    /\ Len(stdout) = 2 * epoch
    /\ stdout[2 * epoch - 1] = EpochLine(epoch - 1)
    /\ stdout[2 * epoch].args = result[TRUE].val

=============================================================================
